---- MODULE Spec2Model ----
(***************************************************************************)
(* The NFT registry canister of registries/nft/src/nft.rs: one controller  *)
(* principal, a map from principal to NftCanister record, the update calls *)
(* init / set_controller / add / remove, the query calls get / get_all and *)
(* the Registry methods archive / load.                                    *)
(*                                                                         *)
(* A Rust String whose length the code measures (name, description) is a   *)
(* sequence of runs [cp |-> code point, n |-> repetitions]; String::len()  *)
(* is the number of bytes of its UTF-8 encoding.  Option<T> is a sequence  *)
(* of length 0 (None) or 1 (Some).  A panic leaves the state as it was     *)
(* (every panic of this file happens before the first write) and shows as  *)
(* the result "Panic".                                                     *)
(***************************************************************************)
EXTENDS Integers, Sequences, FiniteSets, TLC

\* ---------------------------------------------------------------- bounds
NumPrincipals == 2

\* ------------------------------------------------------ program constants
MaxNameLen == 120
MaxDescriptionLen == 1200
NoController == 0

Principals == 1..NumPrincipals

\* ---------------------------------------------------------------- strings
Ascii(k) == IF k = 0 THEN << >> ELSE << [cp |-> 97, n |-> k] >>

\* width in bytes of the UTF-8 encoding of one code point
Utf8Width(cp) ==
    IF cp < 128 THEN 1 ELSE IF cp < 2048 THEN 2 ELSE IF cp < 65536 THEN 3 ELSE 4

RECURSIVE LenFrom(_, _)
LenFrom(s, i) ==
    IF i > Len(s) THEN 0 ELSE s[i].n * Utf8Width(s[i].cp) + LenFrom(s, i + 1)

\* String::len(): bytes, not characters
len(s) == LenFrom(s, 1)

RECURSIVE CharsFrom(_, _)
CharsFrom(s, i) == IF i > Len(s) THEN 0 ELSE s[i].n + CharsFrom(s, i + 1)

\* s.chars().count(): the number of characters of s
chars_count(s) == CharsFrom(s, 1)

\* ------------------------------------------------------------------- URLs
UrlGood == "https://google.com"
UrlSite == "https://dank.ooo/xtc"
UrlBad == "not a url"

\* validator::validate_url: the text parses as an absolute URL
validate_url(u) == u \in {UrlGood, UrlSite}

\* ---------------------------------------------------------------- records
DetailText == [tag |-> "Text", text |-> "Dank"]
DetailTrue == [tag |-> "True"]
Standard == << "standard", DetailText >>
Other == << "symbol", DetailTrue >>

NftCanister(nm, ds, th, fe, id, dt) ==
    [name |-> nm, description |-> ds, thumbnail |-> th, frontend |-> fe,
     principal_id |-> id, details |-> dt]

NameXtc == << [cp |-> 120, n |-> 1], [cp |-> 116, n |-> 1], [cp |-> 99, n |-> 1] >>
NameMax == Ascii(MaxNameLen)
NameOver == Ascii(MaxNameLen + 1)
\* MaxNameLen characters, the first of them two bytes long
NameWide == << [cp |-> 233, n |-> 1] >> \o Ascii(MaxNameLen - 1)

DescXtc == Ascii(26)
DescMax == Ascii(MaxDescriptionLen)
DescOver == Ascii(MaxDescriptionLen + 1)

\* the record the tests add, under identifier id
RecXtc(id) == NftCanister(NameXtc, DescXtc, UrlGood, << >>, id, << Standard >>)
\* a second admissible record: both lengths at their limits, a frontend
RecMax(id) == NftCanister(NameMax, DescMax, UrlGood, << UrlSite >>, id, << Standard >>)
RecOver(id) == NftCanister(NameOver, DescXtc, UrlGood, << >>, id, << Standard >>)
RecBare(id) == NftCanister(NameXtc, DescXtc, UrlGood, << >>, id, << >>)

\* the records the calls of Spec draw from
Records ==
    UNION { { RecXtc(id), RecMax(id), RecOver(id), RecBare(id) } : id \in Principals }

Names == { NameXtc, NameMax, NameOver, NameWide }
Descriptions == { DescMax, DescOver }
Thumbnails == { UrlGood, UrlBad }
Frontends == { << >>, << UrlSite >>, << UrlBad >> }
DetailLists ==
    { << >>, << Standard >>, << Other >>, << Standard, Other >>, << Other, Standard >> }

\* every combination of the field values above, under the first identifier:
\* the records the calls of SpecAdd draw from
FieldRecords ==
    { NftCanister(nm, ds, th, fe, 1, dt) :
        nm \in Names, ds \in Descriptions, th \in Thumbnails,
        fe \in Frontends, dt \in DetailLists }

\* ------------------------------------------------------------------ state
VARIABLES
    controller,  \* the stored Controller, NoController before init
    registry,    \* Registry.0: principal -> NftCanister
    last,        \* the last call: [op, caller, arg, result]
    origin,      \* history: the caller of init while no set_controller succeeded
    handover,    \* history: <<A, B>> after A's set_controller(B), B # A
    added,       \* history: the records added, while nothing was removed
    round_trip,  \* history: set while the last two calls were archive, then
                 \* load of the list it returned; holds the registry archived
    before       \* history: the controller and the registry the last call found

vars == << controller, registry, last, origin, handover, added, round_trip, before >>

EmptyMap == [k \in {} |-> 0]
NoHandover == << 0, 0 >>
NoRoundTrip == [on |-> FALSE, from |-> EmptyMap]

Call(op, caller, arg, result) ==
    [op |-> op, caller |-> caller, arg |-> arg, result |-> result]

Init ==
    /\ controller = NoController
    /\ registry = EmptyMap
    /\ last = Call("none", 0, 0, "Ok")
    /\ origin = 0
    /\ handover = NoHandover
    /\ added = [pure |-> TRUE, map |-> EmptyMap]
    /\ round_trip = NoRoundTrip
    /\ before = [controller |-> NoController, registry |-> EmptyMap]

\* ------------------------------------------------------------- controller
\* ic::get::<Controller>() builds Controller::default() when none is stored,
\* and Controller::default() panics
\* a Controller::default() that returns instead of panicking
Controller_default_quiet == FALSE

Controller_default == controller = NoController

\* the comparison of is_controller turned around
is_controller_negated(account) == account # controller

is_controller(account) == account = controller

\* set_controller without its is_controller test
set_controller_result_unguarded(caller) ==
    IF Controller_default THEN "Panic" ELSE "Ok"

set_controller_result(caller) ==
    IF Controller_default THEN "Panic"
    ELSE IF is_controller(caller) THEN "Ok"
    ELSE "NotAuthorized"

\* --------------------------------------------------------------- Registry
\* the orders in which a HashMap of keys S may be iterated
Orders(S) ==
    { f \in [1..Cardinality(S) -> S] :
        \A i, j \in 1..Cardinality(S) : i # j => f[i] # f[j] }

\* HashMap::insert
Insert(map, key, value) ==
    [k \in DOMAIN map \cup {key} |-> IF k = key THEN value ELSE map[k]]

\* add that keeps the record already stored under the identifier
Registry_add_keep_first(reg, canister_info) ==
    IF canister_info.principal_id \in DOMAIN reg THEN reg
    ELSE Insert(reg, canister_info.principal_id, canister_info)

Registry_add(reg, canister_info) ==
    Insert(reg, canister_info.principal_id, canister_info)

\* remove that empties the map
Registry_remove_cleared(reg, principal_id) == EmptyMap

\* remove that leaves the map as it was
Registry_remove_kept(reg, principal_id) == reg

Registry_remove(reg, principal_id) ==
    [k \in DOMAIN reg \ {principal_id} |-> reg[k]]

Registry_remove_result(reg, principal_id) ==
    IF principal_id \in DOMAIN reg THEN "Ok" ELSE "NonExistentItem"

Registry_get(reg, principal_id) ==
    IF principal_id \in DOMAIN reg THEN << reg[principal_id] >> ELSE << >>

\* the lists get_all may return: the values, in any iteration order
Registry_get_all(reg) ==
    { [i \in 1..Cardinality(DOMAIN reg) |-> reg[f[i]]] : f \in Orders(DOMAIN reg) }

\* archive that pairs the keys of one iteration with the values of the next
Registry_archive_out_of_step(reg) ==
    { [i \in 1..Cardinality(DOMAIN reg) |->
         << f[i], reg[f[(i % Cardinality(DOMAIN reg)) + 1]] >>] :
        f \in Orders(DOMAIN reg) }

\* the lists archive may return: the (key, value) pairs, in any iteration order
Registry_archive(reg) ==
    { [i \in 1..Cardinality(DOMAIN reg) |-> << f[i], reg[f[i]] >>] :
        f \in Orders(DOMAIN reg) }

RECURSIVE CollectFrom(_, _, _)
CollectFrom(list, i, map) ==
    IF i > Len(list) THEN map
    ELSE CollectFrom(list, i + 1, Insert(map, list[i][1], list[i][2]))

\* load that passes over the first pair of the list
Registry_load_from_second(list) == CollectFrom(list, 2, EmptyMap)

\* archive.into_iter().collect(): a later pair replaces an earlier one of its key
Registry_load(list) == CollectFrom(list, 1, EmptyMap)

\* load without its assertion
Registry_load_result_unchecked(reg) == "Ok"

Registry_load_result(reg) == IF reg = EmptyMap THEN "Ok" ELSE "Panic"

\* -------------------------------------------------------------------- add
\* add with the record validated before the caller is looked at
add_result_validation_first(caller, canister_info) ==
    IF Controller_default THEN "Panic"
    ELSE IF ~validate_url(canister_info.thumbnail) THEN "BadParameters"
    ELSE IF Len(canister_info.frontend) = 1
            /\ ~validate_url(canister_info.frontend[1]) THEN "BadParameters"
    ELSE IF Len(canister_info.details) = 0 THEN "Panic"
    ELSE IF canister_info.details[1][1] # "standard" THEN "BadParameters"
    ELSE IF Len(canister_info.details) # 1 THEN "BadParameters"
    ELSE IF ~(len(canister_info.name) <= MaxNameLen
              /\ len(canister_info.description) <= MaxDescriptionLen) THEN "BadParameters"
    ELSE IF ~is_controller(caller) THEN "NotAuthorized"
    ELSE "Ok"

\* add without the test of details.len()
add_result_any_length(caller, canister_info) ==
    IF Controller_default THEN "Panic"
    ELSE IF ~is_controller(caller) THEN "NotAuthorized"
    ELSE IF ~validate_url(canister_info.thumbnail) THEN "BadParameters"
    ELSE IF Len(canister_info.frontend) = 1
            /\ ~validate_url(canister_info.frontend[1]) THEN "BadParameters"
    ELSE IF Len(canister_info.details) = 0 THEN "Panic"
    ELSE IF canister_info.details[1][1] # "standard" THEN "BadParameters"
    ELSE IF len(canister_info.name) <= MaxNameLen
            /\ len(canister_info.description) <= MaxDescriptionLen THEN "Ok"
    ELSE "BadParameters"

add_result(caller, canister_info) ==
    IF Controller_default THEN "Panic"
    ELSE IF ~is_controller(caller) THEN "NotAuthorized"
    ELSE IF ~validate_url(canister_info.thumbnail) THEN "BadParameters"
    ELSE IF Len(canister_info.frontend) = 1
            /\ ~validate_url(canister_info.frontend[1]) THEN "BadParameters"
    ELSE IF Len(canister_info.details) = 0 THEN "Panic"
    ELSE IF canister_info.details[1][1] # "standard" THEN "BadParameters"
    ELSE IF Len(canister_info.details) # 1 THEN "BadParameters"
    ELSE IF len(canister_info.name) <= MaxNameLen
            /\ len(canister_info.description) <= MaxDescriptionLen THEN "Ok"
    ELSE "BadParameters"

remove_result(caller, principal_id) ==
    IF Controller_default THEN "Panic"
    ELSE IF ~is_controller(caller) THEN "NotAuthorized"
    ELSE Registry_remove_result(registry, principal_id)

\* the records add admits from the controller
Admitted ==
    { r \in Records :
        /\ validate_url(r.thumbnail)
        /\ Len(r.frontend) = 1 => validate_url(r.frontend[1])
        /\ Len(r.details) = 1 /\ r.details[1][1] = "standard"
        /\ len(r.name) <= MaxNameLen /\ len(r.description) <= MaxDescriptionLen }

\* the registries add can build: admitted records, each under its own identifier
Registries ==
    UNION { { reg \in [S -> Admitted] : \A k \in S : reg[k].principal_id = k } :
              S \in SUBSET Principals }

\* the lists archive can return, which are the lists load is given
ArchiveLists == UNION { Registry_archive(reg) : reg \in Registries }

\* ---------------------------------------------------------------- history
\* the state a call finds
Found == [controller |-> controller, registry |-> registry]

Impure == [pure |-> FALSE, map |-> EmptyMap]

Noted(h, info) ==
    IF h.pure
    THEN [pure |-> TRUE,
          map |-> [k \in DOMAIN h.map \cup {info.principal_id} |->
                     IF k = info.principal_id THEN info ELSE h.map[k]]]
    ELSE h

\* ---------------------------------------------------------------- actions
\* #[init]: run once, when the canister is installed
init(caller) ==
    /\ controller = NoController
    /\ controller' = caller
    /\ last' = Call("init", caller, 0, "Ok")
    /\ origin' = caller
    /\ before' = Found
    /\ round_trip' = NoRoundTrip
    /\ UNCHANGED << registry, handover, added >>

\* set_controller that answers Ok and stores nothing
set_controller_not_stored(caller, new_controller) ==
    LET res == set_controller_result(caller) IN
    /\ controller' = controller
    /\ last' = Call("set_controller", caller, new_controller, res)
    /\ origin' = IF res = "Ok" THEN 0 ELSE origin
    /\ handover' = IF res # "Ok" THEN handover
                   ELSE IF new_controller # caller THEN << caller, new_controller >>
                   ELSE NoHandover
    /\ before' = Found
    /\ round_trip' = NoRoundTrip
    /\ UNCHANGED << registry, added >>

set_controller(caller, new_controller) ==
    LET res == set_controller_result(caller) IN
    /\ controller' = IF res = "Ok" THEN new_controller ELSE controller
    /\ last' = Call("set_controller", caller, new_controller, res)
    /\ origin' = IF res = "Ok" THEN 0 ELSE origin
    /\ handover' = IF res # "Ok" THEN handover
                   ELSE IF new_controller # caller THEN << caller, new_controller >>
                   ELSE NoHandover
    /\ before' = Found
    /\ round_trip' = NoRoundTrip
    /\ UNCHANGED << registry, added >>

\* add that inserts the record before the checks that return BadParameters
add_insert_first(caller, canister_info) ==
    LET res == add_result(caller, canister_info) IN
    /\ registry' = IF res \in {"Ok", "BadParameters"}
                   THEN Registry_add(registry, canister_info) ELSE registry
    /\ last' = Call("add", caller, canister_info, res)
    /\ added' = IF res = "Ok" THEN Noted(added, canister_info) ELSE added
    /\ before' = Found
    /\ round_trip' = NoRoundTrip
    /\ UNCHANGED << controller, origin, handover >>

add(caller, canister_info) ==
    LET res == add_result(caller, canister_info) IN
    /\ registry' = IF res = "Ok" THEN Registry_add(registry, canister_info) ELSE registry
    /\ last' = Call("add", caller, canister_info, res)
    /\ added' = IF res = "Ok" THEN Noted(added, canister_info) ELSE added
    /\ before' = Found
    /\ round_trip' = NoRoundTrip
    /\ UNCHANGED << controller, origin, handover >>

remove(caller, principal_id) ==
    LET res == remove_result(caller, principal_id) IN
    /\ registry' = IF res = "Ok" THEN Registry_remove(registry, principal_id) ELSE registry
    /\ last' = Call("remove", caller, principal_id, res)
    /\ added' = IF res = "Ok" THEN Impure ELSE added
    /\ before' = Found
    /\ round_trip' = NoRoundTrip
    /\ UNCHANGED << controller, origin, handover >>

\* get that answers the controller alone
get_controller_only(caller, principal_id) ==
    /\ last' = Call("get", caller, principal_id,
                    IF is_controller(caller)
                    THEN Registry_get(registry, principal_id) ELSE << >>)
    /\ before' = Found
    /\ round_trip' = NoRoundTrip
    /\ UNCHANGED << controller, registry, origin, handover, added >>

get(caller, principal_id) ==
    /\ last' = Call("get", caller, principal_id, Registry_get(registry, principal_id))
    /\ before' = Found
    /\ round_trip' = NoRoundTrip
    /\ UNCHANGED << controller, registry, origin, handover, added >>

get_all(caller) ==
    /\ \E out \in Registry_get_all(registry) : last' = Call("get_all", caller, 0, out)
    /\ before' = Found
    /\ round_trip' = NoRoundTrip
    /\ UNCHANGED << controller, registry, origin, handover, added >>

\* archive that returns the pairs and leaves them in the map
archive_not_drained ==
    /\ \E out \in Registry_archive(registry) :
          last' = Call("archive", 0, registry, out)
    /\ registry' = registry
    /\ added' = Impure
    /\ before' = Found
    /\ round_trip' = NoRoundTrip
    /\ UNCHANGED << controller, origin, handover >>

\* Registry::archive; the call records the registry it found as its argument
archive ==
    /\ \E out \in Registry_archive(registry) :
          last' = Call("archive", 0, registry, out)
    /\ registry' = EmptyMap
    /\ added' = Impure
    /\ before' = Found
    /\ round_trip' = NoRoundTrip
    /\ UNCHANGED << controller, origin, handover >>

\* Registry::load
load(list) ==
    LET res == Registry_load_result(registry) IN
    /\ registry' = IF res = "Ok" THEN Registry_load(list) ELSE registry
    /\ last' = Call("load", 0, list, res)
    /\ added' = IF res = "Ok" THEN Impure ELSE added
    /\ before' = Found
    /\ round_trip' = IF last.op = "archive" /\ list = last.result
                     THEN [on |-> TRUE, from |-> last.arg]
                     ELSE NoRoundTrip
    /\ UNCHANGED << controller, origin, handover >>

Next ==
    \/ \E caller \in Principals : init(caller)
    \/ \E caller \in Principals, new_controller \in Principals :
          set_controller(caller, new_controller)
    \/ \E caller \in Principals, canister_info \in Records : add(caller, canister_info)
    \/ \E caller \in Principals, principal_id \in Principals : remove(caller, principal_id)
    \/ \E caller \in Principals, principal_id \in Principals : get(caller, principal_id)
    \/ \E caller \in Principals : get_all(caller)
    \/ archive
    \/ \E list \in ArchiveLists : load(list)

Spec == Init /\ [][Next]_vars

\* the calls that decide admission, with every combination of field values
NextAdd ==
    \/ \E caller \in Principals : init(caller)
    \/ \E caller \in Principals, canister_info \in FieldRecords : add(caller, canister_info)

SpecAdd == Init /\ [][NextAdd]_vars

\* the FieldRecords add admits from the controller
FieldAdmitted ==
    { r \in FieldRecords :
        /\ validate_url(r.thumbnail)
        /\ Len(r.frontend) = 1 => validate_url(r.frontend[1])
        /\ Len(r.details) = 1 /\ r.details[1][1] = "standard"
        /\ len(r.name) <= MaxNameLen /\ len(r.description) <= MaxDescriptionLen }

\* the lists archive can return from the registries add can build of them
FieldArchiveLists ==
    UNION { Registry_archive(reg) :
              reg \in { EmptyMap } \cup { [k \in {r.principal_id} |-> r] : r \in FieldAdmitted } }

\* the calls that write the registry, with every combination of field values
NextFields ==
    \/ \E caller \in Principals : init(caller)
    \/ \E caller \in Principals, canister_info \in FieldRecords : add(caller, canister_info)
    \/ \E caller \in Principals : remove(caller, 1)
    \/ archive
    \/ \E list \in FieldArchiveLists : load(list)

SpecFields == Init /\ [][NextFields]_vars

\* ================================================================= claims
\* every list archive returns is one of the lists load is given
ArchiveListsCoverArchive == last.op = "archive" => last.result \in ArchiveLists

\* C1: while the controller is still the caller A of init (no set_controller
\* has succeeded), an add by any caller other than A returns NotAuthorized,
\* whatever the record, and leaves the registry as it was.
C1_AddByStrangerRefused ==
    [][ (origin # 0 /\ last'.op = "add" /\ last'.caller # origin)
          => (last'.result = "NotAuthorized" /\ registry' = registry) ]_vars

\* a caller other than the initial controller was refused an admissible record,
\* with a record already in the registry
C1_Witness ==
    /\ origin # 0
    /\ last.op = "add"
    /\ last.caller # origin
    /\ last.arg \in Admitted
    /\ last.result = "NotAuthorized"
    /\ registry # EmptyMap

\* C2: once a controller is stored, set_controller(new_id) returns Ok exactly
\* when the caller is the current controller, and then the controller is new_id;
\* for any other caller it returns NotAuthorized and the controller and the
\* registry are unchanged.
C2_SetControllerIffController ==
    [][ (last'.op = "set_controller" /\ controller # NoController)
          => /\ last'.result = "Ok" <=> last'.caller = controller
             /\ last'.result = "Ok" => controller' = last'.arg
             /\ last'.result # "Ok"
                  => /\ last'.result = "NotAuthorized"
                     /\ controller' = controller
                     /\ registry' = registry ]_vars

\* A handed the controller over to B, and A's next set_controller was refused
C2_Witness ==
    /\ handover # NoHandover
    /\ controller = handover[2]
    /\ last.op = "set_controller"
    /\ last.caller = handover[1]
    /\ last.result = "NotAuthorized"
    /\ registry # EmptyMap

\* C3: after A's successful set_controller(B), B # A, and until B replaces the
\* controller, every add or remove by A returns NotAuthorized and no add by B
\* does: B's add returns Ok exactly for the records that pass validation.
C3_HandoverMovesAuthority ==
    handover # NoHandover =>
        /\ (last.op \in {"add", "remove"} /\ last.caller = handover[1])
              => last.result = "NotAuthorized"
        /\ (last.op = "add" /\ last.caller = handover[2])
              => /\ last.result # "NotAuthorized"
                 /\ last.result = "Ok" <=> last.arg \in Admitted

\* after the handover the former controller was refused an admissible record
C3_Witness ==
    /\ handover # NoHandover
    /\ last.op = "add"
    /\ last.caller = handover[1]
    /\ last.arg \in Admitted
    /\ last.result = "NotAuthorized"

\* C4: an add by a caller that is not the controller returns NotAuthorized for
\* every combination of field values, valid or not: never BadParameters.
C4_AuthorizationBeforeValidation ==
    (last.op = "add" /\ controller # NoController /\ last.caller # controller)
        => last.result = "NotAuthorized"

\* a caller that is not the controller was refused a record that fails every check
C4_Witness ==
    /\ last.op = "add"
    /\ controller # NoController
    /\ last.caller # controller
    /\ ~validate_url(last.arg.thumbnail)
    /\ last.arg.frontend = << UrlBad >>
    /\ last.arg.details = << >>
    /\ len(last.arg.name) > MaxNameLen
    /\ len(last.arg.description) > MaxDescriptionLen
    /\ last.result = "NotAuthorized"

\* the attribute list has two or more pairs, or a first pair whose key is not
\* "standard"
BadDetails(canister_info) ==
    \/ Len(canister_info.details) >= 2
    \/ Len(canister_info.details) >= 1 /\ canister_info.details[1][1] # "standard"

\* C5: an add by the controller of a record with two or more attribute pairs, or
\* whose first pair's key is not "standard", returns BadParameters and leaves
\* the registry as it was, whatever the other fields are.
C5_BadDetailsRefused ==
    [][ (last'.op = "add" /\ last'.caller = controller /\ BadDetails(last'.arg))
          => (last'.result = "BadParameters" /\ registry' = registry) ]_vars

\* the controller was refused a record whose only fault is a second pair
C5_Witness ==
    /\ last.op = "add"
    /\ last.caller = controller
    /\ Len(last.arg.details) = 2
    /\ last.arg.details[1][1] = "standard"
    /\ validate_url(last.arg.thumbnail)
    /\ last.arg.frontend = << >>
    /\ len(last.arg.name) <= MaxNameLen
    /\ len(last.arg.description) <= MaxDescriptionLen
    /\ last.result = "BadParameters"
    /\ registry # EmptyMap

\* every field but the name passes the checks of add
OtherwiseValid(canister_info) ==
    /\ validate_url(canister_info.thumbnail)
    /\ Len(canister_info.frontend) = 1 => validate_url(canister_info.frontend[1])
    /\ Len(canister_info.details) = 1
    /\ canister_info.details[1][1] = "standard"
    /\ len(canister_info.description) <= MaxDescriptionLen

\* C6: an add by the controller of a record with an empty attribute list and
\* valid thumbnail and frontend returns BadParameters (it does not abort).
C6_EmptyDetailsRefused ==
    ( /\ last.op = "add"
      /\ last.caller = controller
      /\ last.arg.details = << >>
      /\ validate_url(last.arg.thumbnail)
      /\ Len(last.arg.frontend) = 1 => validate_url(last.arg.frontend[1]) )
        => last.result = "BadParameters"

\* C7: for a record valid in every other field, an add by the controller returns
\* Ok when the name has MaxNameLen characters and BadParameters when it has one
\* more, the length being the number of characters.
C7_NameLimitInCharacters ==
    (last.op = "add" /\ last.caller = controller /\ OtherwiseValid(last.arg))
        => /\ chars_count(last.arg.name) = MaxNameLen => last.result = "Ok"
           /\ chars_count(last.arg.name) = MaxNameLen + 1
                => last.result = "BadParameters"

\* C8: a remove by the controller of an identifier that is not in the registry
\* returns NonExistentItem and leaves the registry as it was; of one that is in
\* the registry it returns Ok and get of it returns none; and an identifier that
\* is not in the registry comes into it only by a call that inserts it: an add
\* of that identifier that returns Ok (or a load, which inserts a whole list).
C8_RemoveThenAbsent ==
    [][ /\ (last'.op = "remove" /\ last'.caller = controller)
            => IF last'.arg \in DOMAIN registry
               THEN /\ last'.result = "Ok"
                    /\ Registry_get(registry', last'.arg) = << >>
               ELSE /\ last'.result = "NonExistentItem"
                    /\ registry' = registry
        /\ \A id \in Principals :
              (id \notin DOMAIN registry /\ id \in DOMAIN registry')
                => \/ /\ last'.op = "add"
                      /\ last'.arg.principal_id = id
                      /\ last'.result = "Ok"
                   \/ last'.op = "load" ]_vars

\* the controller removed an identifier, another one is still in the registry
C8_Witness ==
    /\ last.op = "remove"
    /\ last.caller = controller
    /\ last.result = "Ok"
    /\ last.arg \notin DOMAIN registry
    /\ registry # EmptyMap

\* C9: while every call that changed the registry was an add (none removed,
\* archived or loaded), get_all returns one record for each identifier added,
\* and for each identifier the record last added under it.
C9_GetAllAfterAdds ==
    (last.op = "get_all" /\ added.pure)
        => /\ Len(last.result) = Cardinality(DOMAIN added.map)
           /\ { last.result[i] : i \in 1..Len(last.result) }
                = { added.map[k] : k \in DOMAIN added.map }

\* get_all returned two records or more after adds alone
C9_Witness ==
    /\ last.op = "get_all"
    /\ added.pure
    /\ Len(last.result) >= 2
    /\ Cardinality(DOMAIN added.map) >= 2

\* C10: a load of the list that the archive just before it returned leaves the
\* registry with the (identifier, record) pairs it held before that archive:
\* non-empty exactly when it was non-empty.
C10_ArchiveLoadRoundTrip ==
    round_trip.on
        => /\ last.op = "load"
           /\ last.result = "Ok"
           /\ registry = round_trip.from
           /\ registry # EmptyMap <=> round_trip.from # EmptyMap

\* archive, then load of its list, gave back a registry of two records or more
C10_Witness ==
    /\ round_trip.on
    /\ last.op = "load"
    /\ Cardinality(DOMAIN round_trip.from) >= 2
    /\ Cardinality(DOMAIN registry) >= 2

\* C11: a load that finds a record in the registry panics: it returns no
\* result, and the registry is neither merged with the list nor replaced by it.
C11_LoadOnNonEmptyPanics ==
    (last.op = "load" /\ before.registry # EmptyMap)
        => (last.result = "Panic" /\ registry = before.registry)

\* a load panicked on a registry that lacks an identifier of the list
C11_Witness ==
    /\ last.op = "load"
    /\ before.registry # EmptyMap
    /\ last.result = "Panic"
    /\ \E i \in 1..Len(last.arg) : last.arg[i][1] \notin DOMAIN registry

\* C12: archive returns each (identifier, record) pair of the registry it found
\* exactly once and leaves the registry empty: get returns none for every
\* identifier and get_all returns no record.
C12_ArchiveDrains ==
    last.op = "archive"
        => /\ Len(last.result) = Cardinality(DOMAIN before.registry)
           /\ { last.result[i] : i \in 1..Len(last.result) }
                = { << k, before.registry[k] >> : k \in DOMAIN before.registry }
           /\ \A id \in Principals : Registry_get(registry, id) = << >>
           /\ Registry_get_all(registry) = { << >> }

\* archive returned two pairs or more
C12_Witness ==
    /\ last.op = "archive"
    /\ Cardinality(DOMAIN before.registry) >= 2
    /\ Len(last.result) >= 2

\* C13: an add by the controller of an admitted record whose identifier is
\* already in the registry returns Ok, leaves the set of identifiers as it was,
\* and get of that identifier then returns the new record.  (Admitted is what
\* the checks of add let through: lengths in bytes, see C7.)
C13_AddOverwrites ==
    ( /\ last.op = "add"
      /\ last.caller = before.controller
      /\ last.arg \in Admitted
      /\ last.arg.principal_id \in DOMAIN before.registry )
        => /\ last.result = "Ok"
           /\ DOMAIN registry = DOMAIN before.registry
           /\ last.arg.principal_id \in DOMAIN registry
           /\ registry[last.arg.principal_id] = last.arg

\* an add replaced a different record stored under the same identifier
C13_Witness ==
    /\ last.op = "add"
    /\ last.result = "Ok"
    /\ last.arg.principal_id \in DOMAIN before.registry
    /\ before.registry[last.arg.principal_id] # last.arg
    /\ registry[last.arg.principal_id] = last.arg

\* C14: an add, remove or set_controller that returns NotAuthorized,
\* BadParameters or NonExistentItem leaves the registry and the controller as
\* the call found them.
C14_ErrorChangesNothing ==
    ( /\ last.op \in {"add", "remove", "set_controller"}
      /\ last.result \in {"NotAuthorized", "BadParameters", "NonExistentItem"} )
        => (registry = before.registry /\ controller = before.controller)

\* the controller's add was refused with BadParameters for an identifier that
\* is in the registry
C14_Witness ==
    /\ last.op = "add"
    /\ last.caller = controller
    /\ last.result = "BadParameters"
    /\ last.arg.principal_id \in DOMAIN registry

\* C15: get and get_all answer every caller and leave the registry and the
\* controller as they were; get(id) returns the stored record when id is in
\* the registry and none otherwise.
C15_QueriesReadOnly ==
    /\ last.op \in {"get", "get_all"}
         => (registry = before.registry /\ controller = before.controller)
    /\ last.op = "get"
         => last.result = IF last.arg \in DOMAIN registry
                          THEN << registry[last.arg] >> ELSE << >>
    /\ last.op = "get_all"
         => /\ Len(last.result) = Cardinality(DOMAIN registry)
            /\ { last.result[i] : i \in 1..Len(last.result) }
                 = { registry[k] : k \in DOMAIN registry }

\* a caller that is not the controller got the stored record
C15_Witness ==
    /\ last.op = "get"
    /\ controller # NoController
    /\ last.caller # controller
    /\ last.arg \in DOMAIN registry
    /\ last.result = << registry[last.arg] >>

\* C16: once a controller is stored, one is stored in every later state, and
\* its value changes only in a set_controller called by the controller of that
\* moment; add, remove, get, get_all, archive and load leave it as it was.
C16_ControllerChangesByItsHolder ==
    /\ last.op \notin {"none", "init"} => controller = IF last.op = "set_controller"
                                                         /\ last.result = "Ok"
                                                      THEN last.arg
                                                      ELSE before.controller
    /\ before.controller # NoController
         => /\ controller # NoController
            /\ controller # before.controller
                 => /\ last.op = "set_controller"
                    /\ last.caller = before.controller
    /\ last.op \in {"add", "remove", "get", "get_all", "archive", "load"}
         => controller = before.controller

\* the controller changed
C16_Witness ==
    /\ before.controller # NoController
    /\ controller # before.controller
    /\ last.op = "set_controller"
    /\ registry # EmptyMap

\* C17: while no controller is stored, add, remove and set_controller panic
\* for every caller: no result, nobody authorized, registry and controller as
\* they were.
C17_PanicBeforeInit ==
    ( /\ last.op \in {"add", "remove", "set_controller"}
      /\ before.controller = NoController )
        => /\ last.result = "Panic"
           /\ registry = before.registry
           /\ controller = NoController

\* before init, a remove of an identifier that is in the registry panicked
C17_Witness ==
    /\ last.op = "remove"
    /\ before.controller = NoController
    /\ last.arg \in DOMAIN registry
    /\ last.result = "Panic"

\* every list archive returns under SpecFields is one of the lists load is given
FieldArchiveListsCoverArchive ==
    last.op = "archive" => last.result \in FieldArchiveLists

\* C18: every record in the registry meets the constraints add checks: one
\* attribute pair, keyed "standard"; a name and a description within their
\* limits (in bytes, hence in characters); a thumbnail that is a valid URL and
\* a frontend that is absent or a valid URL.
C18_StoredRecordsAdmissible ==
    \A k \in DOMAIN registry :
        /\ Len(registry[k].details) = 1
        /\ registry[k].details[1][1] = "standard"
        /\ len(registry[k].name) <= MaxNameLen
        /\ chars_count(registry[k].name) <= MaxNameLen
        /\ len(registry[k].description) <= MaxDescriptionLen
        /\ chars_count(registry[k].description) <= MaxDescriptionLen
        /\ validate_url(registry[k].thumbnail)
        /\ Len(registry[k].frontend) = 1 => validate_url(registry[k].frontend[1])

\* a load brought a record with a frontend into the registry
C18_Witness ==
    /\ last.op = "load"
    /\ last.result = "Ok"
    /\ 1 \in DOMAIN registry
    /\ registry[1].frontend = << UrlSite >>
    /\ len(registry[1].name) = MaxNameLen

\* C19: every record in the registry is stored under its own principal_id, so
\* get(id) never returns a record of another identifier.
C19_KeyIsPrincipalId ==
    /\ \A k \in DOMAIN registry : registry[k].principal_id = k
    /\ (last.op = "get" /\ last.result # << >>)
         => last.result[1].principal_id = last.arg

\* a load filled the registry with two records or more
C19_Witness ==
    /\ last.op = "load"
    /\ last.result = "Ok"
    /\ Cardinality(DOMAIN registry) >= 2

\* the identifier a successful add or remove names
Named == IF last.op = "add" THEN last.arg.principal_id ELSE last.arg

\* C20: an add or remove that returns Ok leaves the entry of every identifier
\* but the one it names, and the controller, as the call found them.
C20_OnlyTheNamedEntryChanges ==
    (last.op \in {"add", "remove"} /\ last.result = "Ok")
        => /\ controller = before.controller
           /\ \A id \in Principals \ {Named} :
                /\ id \in DOMAIN registry <=> id \in DOMAIN before.registry
                /\ id \in DOMAIN registry => registry[id] = before.registry[id]

\* a remove returned Ok and another identifier is still in the registry
C20_Witness ==
    /\ last.op = "remove"
    /\ last.result = "Ok"
    /\ last.arg \in DOMAIN before.registry
    /\ registry # EmptyMap

====
